---- MODULE Spec2Model ----
(***************************************************************************)
(* A model of the trace acquisition pipeline of the ADB task graph tracer: *)
(* EnergyDebugger.run drives SysLogger (buffer ramp, setup, start, stop,   *)
(* finish) and Tracer (clear, configure, timed capture, artifact pulls)    *)
(* over a command channel whose every call may raise; OptimizationInfo     *)
(* assigns ids from the module-level counter optimization_ID.              *)
(*                                                                         *)
(* Strings whose content the code inspects (catalog files, event and       *)
(* tracer names) are sequences of one-character strings, so that Python's  *)
(* `name in content` is the substring test it is.                          *)
(***************************************************************************)
EXTENDS Integers, Sequences, FiniteSets, TLC

(***************************************************************************)
(* Names                                                                   *)
(***************************************************************************)
sched_switch == <<"s","c","h","e","d","_","s","w","i","t","c","h">>
cpu_idle == <<"c","p","u","_","i","d","l","e">>
binder_transaction == <<"b","i","n","d","e","r","_","t","r","a","n","s","a","c","t","i","o","n">>
sys_logger == <<"s","y","s","_","l","o","g","g","e","r">>
sched_wakeup == <<"s","c","h","e","d","_","w","a","k","e","u","p">>
sched_wakeup_new == <<"s","c","h","e","d","_","w","a","k","e","u","p","_","n","e","w">>
nop == <<"n","o","p">>
function == <<"f","u","n","c","t","i","o","n">>
function_graph == <<"f","u","n","c","t","i","o","n","_","g","r","a","p","h">>
newline == <<"\n">>

(***************************************************************************)
(* Bounds of the model                                                     *)
(***************************************************************************)
MaxEvents == 2
MaxRampSteps == 2
MaxClock == 450
MaxCalls == 4

(***************************************************************************)
(* Program constants                                                       *)
(***************************************************************************)
BufferFloor == 17000
BufferIncrement == 500
MicrosPerSecond == 1000000
MicrosPerCenti == 10000
MaxAttempts == 3

(***************************************************************************)
(* String helpers                                                          *)
(***************************************************************************)
\* Python's `needle in haystack` on two strings: needle occurs as a
\* contiguous run of characters of haystack.
IsSubstring(needle, haystack) ==
    \E i \in 0..(Len(haystack) - Len(needle)) :
        \A j \in 1..Len(needle) : haystack[i + j] = needle[j]

Range(s) == {s[i] : i \in 1..Len(s)}

RECURSIVE SelectSeqBy(_, _)
SelectSeqBy(s, keep) ==
    IF s = <<>> THEN <<>>
    ELSE IF Head(s) \in keep THEN <<Head(s)>> \o SelectSeqBy(Tail(s), keep)
    ELSE SelectSeqBy(Tail(s), keep)

RECURSIVE Dedup(_)
Dedup(s) ==
    IF s = <<>> THEN <<>>
    ELSE LET init == Dedup(SubSeq(s, 1, Len(s) - 1))
             last == s[Len(s)]
         IN IF last \in Range(init) THEN init ELSE Append(init, last)

SeqsUpTo(S, n) == UNION {[1..k -> S] : k \in 0..n}

\* The content `cat` returns for a catalog file: one entry per line.
RECURSIVE FileContent(_)
FileContent(entries) ==
    IF entries = <<>> THEN <<>>
    ELSE Head(entries) \o newline \o FileContent(Tail(entries))

(***************************************************************************)
(* State                                                                   *)
(***************************************************************************)
VARIABLES
    \* Tracer / EnergyDebugger configuration
    events, trace_type, duration, preamble, skip_clear,
    \* the device: catalog files, tracer files, trace buffer size, uptime
    \* clock (in 1/100 s, the resolution of /proc/uptime), logging daemon
    available_events, available_tracers, set_event, current_tracer, trace,
    tracing_on, buffer_size_kb, clock, daemon,
    \* SysLogger.status
    status,
    \* locals of the running methods
    cur_val, attempts, avail_events, f, start_time, now,
    \* position in EnergyDebugger.run, and how many times run was entered
    pc, runs,
    \* history: commands of the current run outside the two polling loops,
    \* values read from and written to buffer_size_kb, names appended to
    \* set_event by the current _set_available_events, artifacts pulled
    log, obs, writes, appended, pulled,
    \* the application name the Tracer is built with
    name,
    \* Optimizations.py: the global counter and the OptimizationInfo objects,
    \* with the history of add_optim_type calls per object
    optimization_ID, ID, optim_type, message, called, flagged,
    \* pid_trace.py: what the device prints for `ps | grep name` (its lines)
    \* and for `busybox ps -T | grep name` (its lines), the fields of the
    \* PIDtracer and the position in its constructor
    ps_output, thread_listing, mainPID, allPID, pid_pc,
    \* metrics.py: what nproc prints, the fields of the SystemMetrics and the
    \* position in its constructor
    nproc, core_count, core_freqs, core_loads, gpu_freq, gpu_util, met_pc

configVars == <<events, trace_type, duration, preamble, skip_clear, name>>
catalogVars == <<available_events, available_tracers>>
tracerFiles == <<set_event, current_tracer, trace, tracing_on>>
rampVars == <<buffer_size_kb, cur_val, attempts, obs, writes>>
eventLocals == <<avail_events, f, appended>>
timeVars == <<clock, start_time, now>>
loggerVars == <<daemon, status>>
optimVars == <<optimization_ID, ID, optim_type, message, called, flagged>>
pidVars == <<ps_output, thread_listing, mainPID, allPID, pid_pc>>
metricVars == <<nproc, core_count, core_freqs, core_loads, gpu_freq, gpu_util,
                met_pc>>
sessionVars == <<configVars, catalogVars, tracerFiles, rampVars, eventLocals,
                 timeVars, loggerVars, pc, runs, log, pulled>>
vars == <<sessionVars, optimVars, pidVars, metricVars>>

(***************************************************************************)
(* Command channel (ADBInterface): file primitives on the device           *)
(***************************************************************************)
write_file(content) == content
append_to_file(file, line) == Append(file, line)
clear_file == <<>>
read_file(entries) == FileContent(entries)

\* Every label is one blocking channel call of the run.
ChannelCalls ==
    {"buf_read", "buf_write", "buf_readback", "setup", "start",
     "clear_tracer", "clear_trace", "clear_set_event",
     "read_events", "append_event", "read_tracers", "write_tracer",
     "start_time", "enable", "poll", "traced_time", "disable",
     "stop", "finish", "pull_dat", "pull_report", "pull_tlog"}

Issue(cmd) == log' = Append(log, cmd)

(***************************************************************************)
(* SysLogger (SysLoggerInterface.py)                                       *)
(***************************************************************************)
\* What the device does with a write to buffer_size_kb: the kernel takes the
\* requested size or leaves the buffer as it was.
DeviceBufferAfter(requested) == {buffer_size_kb, requested}

\* `while cur_val < buffer_val`
RampContinues(cur) == cur < BufferFloor

\* The counter without its `else: attempts = 0`
NextAttemptsNoReset(prev, cur, n) == IF prev = cur THEN n + 1 ELSE n

\* `if prev_val == cur_val: attempts += 1 ... else: attempts = 0`
NextAttempts(prev, cur, n) == IF prev = cur THEN n + 1 ELSE 0

\* `if attempts == 3: return`, reached only when the read-back did not change
RampGivesUp(prev, cur, n) == prev = cur /\ n = MaxAttempts

\* The ramp giving up taken as the end of the session
AfterRampAbortFatal == "failed"

\* `return` out of the ramp: _setup goes on with sys_logger.sh setup -nt
AfterRampAbort == "setup"

\* _get_da_buffers_up, the first read of buffer_size_kb
RampRead ==
    /\ pc = "buf_read"
    /\ cur_val' = buffer_size_kb
    /\ attempts' = 0
    /\ obs' = <<buffer_size_kb>>
    /\ writes' = <<>>
    /\ pc' = IF RampContinues(cur_val') THEN "buf_write" ELSE "setup"
    /\ UNCHANGED <<buffer_size_kb, configVars, catalogVars, tracerFiles,
                   eventLocals, timeVars, loggerVars, runs, log, pulled,
                   optimVars, pidVars,
                   metricVars>>

\* The floor requested in one write
RampRequestFloor(cur) == BufferFloor

\* str(cur_val + 500)
RampRequest(cur) == cur + BufferIncrement

\* _get_da_buffers_up, the echo of cur_val + 500 into buffer_size_kb
RampWrite ==
    /\ pc = "buf_write"
    /\ \E b \in DeviceBufferAfter(RampRequest(cur_val)) :
           buffer_size_kb' = b
    /\ writes' = Append(writes, RampRequest(cur_val))
    /\ pc' = "buf_readback"
    /\ UNCHANGED <<cur_val, attempts, obs, configVars, catalogVars,
                   tracerFiles, eventLocals, timeVars, loggerVars, runs, log,
                   pulled, optimVars, pidVars,
                   metricVars>>

\* _get_da_buffers_up, the read-back and the rest of the loop body
RampReadBack ==
    /\ pc = "buf_readback"
    /\ cur_val' = buffer_size_kb
    /\ attempts' = NextAttempts(cur_val, cur_val', attempts)
    /\ obs' = Append(obs, buffer_size_kb)
    /\ pc' = IF RampGivesUp(cur_val, cur_val', attempts') THEN AfterRampAbort
             ELSE IF RampContinues(cur_val') THEN "buf_write"
             ELSE "setup"
    /\ UNCHANGED <<buffer_size_kb, writes, configVars, catalogVars,
                   tracerFiles, eventLocals, timeVars, loggerVars, runs, log,
                   pulled, optimVars, pidVars,
                   metricVars>>

\* run_tracer with the skip flag ignored: the clear is always run
TracerEntryAlwaysClears == "clear_tracer"

\* Where run_tracer starts: `if not skip: self._clear_tracer()`
TracerEntry == IF skip_clear THEN "read_events" ELSE "clear_tracer"

\* run with the capture started right after the logger, unconfigured
AfterLoggerStartUnconfigured == "start_time"

\* run: self.tracer.run_tracer(...) follows self.sys_logger.start()
AfterLoggerStart == TracerEntry

\* run: self.sys_logger.stop() follows self.tracer.run_tracer(...)
AfterTracer == "stop"

\* run: self.tracer.get_trace_results() follows self.sys_logger.stop()
AfterLoggerStop == "pull_dat"

\* _setup, after the ramp: sys_logger.sh setup -nt. The history of the ramp
\* is kept up to here and dropped with the ramp behind.
LoggerSetup ==
    /\ pc = "setup"
    /\ daemon' = "setup"
    /\ status' = "SETUP"
    /\ Issue("setup")
    /\ obs' = <<>>
    /\ writes' = <<>>
    /\ pc' = "start"
    /\ UNCHANGED <<configVars, catalogVars, tracerFiles, buffer_size_kb,
                   cur_val, attempts, eventLocals, timeVars, runs, pulled,
                   optimVars, pidVars,
                   metricVars>>

\* start, after _setup: sys_logger.sh start; run then goes on to run_tracer
LoggerStart ==
    /\ pc = "start"
    /\ daemon' = "started"
    /\ status' = "START"
    /\ Issue("start")
    /\ pc' = AfterLoggerStart
    /\ UNCHANGED <<configVars, catalogVars, tracerFiles, rampVars,
                   eventLocals, timeVars, runs, pulled, optimVars, pidVars,
                   metricVars>>

\* stop: sys_logger.sh stop, then the settle delay
LoggerStop ==
    /\ pc = "stop"
    /\ daemon' = "stopped"
    /\ status' = "STOP"
    /\ Issue("stop")
    /\ pc' = "finish"
    /\ UNCHANGED <<configVars, catalogVars, tracerFiles, rampVars,
                   eventLocals, timeVars, runs, pulled, optimVars, pidVars,
                   metricVars>>

\* _finish: sys_logger.sh finish; run then goes on to get_trace_results
LoggerFinish ==
    /\ pc = "finish"
    /\ daemon' = "finished"
    /\ status' = "FINISH"
    /\ Issue("finish")
    /\ pc' = AfterLoggerStop
    /\ UNCHANGED <<configVars, catalogVars, tracerFiles, rampVars,
                   eventLocals, timeVars, runs, pulled, optimVars, pidVars,
                   metricVars>>

(***************************************************************************)
(* Tracer (Tracer.py)                                                      *)
(***************************************************************************)
\* The membership test left out: every requested name is appended.
EventSelectedAlways(event, content) == TRUE

\* `events[f] in avail_events`, avail_events being the text of the catalog
EventSelected(event, content) == IsSubstring(event, content)

\* The next index at or after `from` whose event passes the test of the
\* loop `for f in range(0, len(events))`, or Len(evs) + 1 when the loop ends.
NextSelected(evs, from, content) ==
    LET hits == {i \in from..Len(evs) : EventSelected(evs[i], content)}
    IN IF hits = {} THEN Len(evs) + 1
       ELSE CHOOSE i \in hits : \A j \in hits : i <= j

\* The text of available_tracers: the tracer names on one line.
RECURSIVE TracersContent(_)
TracersContent(entries) ==
    IF entries = <<>> THEN newline
    ELSE IF Len(entries) = 1 THEN Head(entries) \o newline
    ELSE Head(entries) \o <<" ">> \o TracersContent(Tail(entries))

\* `tracer in available_tracers`
TracerAvailable(tracer, content) == IsSubstring(tracer, content)

\* Uptimes (in 1/100 s, below 20 s) that int(float(text) * 1000000) takes to
\* one microsecond less than the exact product: the double nearest to the
\* decimal text times 1000000 falls just under the integer, and int() cuts.
FloatTruncated ==
    {201, 203, 205, 207, 209, 402, 406, 410, 414, 418, 803, 804, 811, 812,
     819, 820, 828, 829, 836, 837, 1606, 1608, 1613, 1615, 1622, 1624, 1631,
     1633, 1638, 1640, 1647, 1649, 1656, 1658, 1663, 1665, 1672, 1674}

\* _get_device_time: the first "digits.two digits" of /proc/uptime as
\* microseconds, through float and int
DeviceTime(centis) ==
    centis * MicrosPerCenti - (IF centis \in FloatTruncated THEN 1 ELSE 0)

\* The loop condition with <= for <: one poll too many at the boundary.
StillTracingInclusive(t, start, d, p) ==
    (t - start) <= (d * MicrosPerSecond + p * MicrosPerSecond)

\* The loop condition with the two times swapped: never false.
StillTracingReversed(t, start, d, p) ==
    (start - t) < (d * MicrosPerSecond + p * MicrosPerSecond)

\* The condition of the polling loop of _trace_for_time
StillTracing(t, start, d, p) ==
    (t - start) < (d * MicrosPerSecond + p * MicrosPerSecond)

\* How far the device clock moves between two reads of /proc/uptime: the
\* host sleeps 0.1 s and may be delayed by any amount on top.
ClockSteps == {0, 25, 100}

\* _clear_tracer: write "nop" to current_tracer
ClearTracer ==
    /\ pc = "clear_tracer"
    /\ current_tracer' = write_file(nop)
    /\ Issue("clear_tracer")
    /\ pc' = "clear_trace"
    /\ UNCHANGED <<set_event, trace, tracing_on, configVars, catalogVars,
                   rampVars, eventLocals, timeVars, loggerVars, runs, pulled,
                   optimVars, pidVars,
                   metricVars>>

\* _clear_tracer: clear the trace file
ClearTrace ==
    /\ pc = "clear_trace"
    /\ trace' = clear_file
    /\ Issue("clear_trace")
    /\ pc' = "clear_set_event"
    /\ UNCHANGED <<set_event, current_tracer, tracing_on, configVars,
                   catalogVars, rampVars, eventLocals, timeVars, loggerVars,
                   runs, pulled, optimVars, pidVars,
                   metricVars>>

\* run_tracer: clear set_event
ClearSetEvent ==
    /\ pc = "clear_set_event"
    /\ set_event' = clear_file
    /\ Issue("clear_set_event")
    /\ pc' = "read_events"
    /\ UNCHANGED <<current_tracer, trace, tracing_on, configVars,
                   catalogVars, rampVars, eventLocals, timeVars, loggerVars,
                   runs, pulled, optimVars, pidVars,
                   metricVars>>

\* _set_available_events: read available_events, then run the loop up to
\* its first append
ReadAvailableEvents ==
    /\ pc = "read_events"
    /\ avail_events' = read_file(available_events)
    /\ f' = NextSelected(events, 1, avail_events')
    /\ appended' = <<>>
    /\ Issue("read_events")
    /\ pc' = IF f' <= Len(events) THEN "append_event" ELSE "read_tracers"
    /\ UNCHANGED <<tracerFiles, configVars, catalogVars, rampVars, timeVars,
                   loggerVars, runs, pulled, optimVars, pidVars,
                   metricVars>>

\* _set_available_events: append events[f] to set_event, then run the loop
\* up to its next append
AppendEvent ==
    /\ pc = "append_event"
    /\ set_event' = append_to_file(set_event, events[f])
    /\ f' = NextSelected(events, f + 1, avail_events)
    /\ appended' = Append(appended, events[f])
    /\ Issue("append_event")
    /\ pc' = IF f' <= Len(events) THEN "append_event" ELSE "read_tracers"
    /\ UNCHANGED <<current_tracer, trace, tracing_on, avail_events,
                   configVars, catalogVars, rampVars, timeVars, loggerVars,
                   runs, pulled, optimVars, pidVars,
                   metricVars>>

\* _set_available_tracer: read available_tracers
ReadAvailableTracers ==
    /\ pc = "read_tracers"
    /\ Issue("read_tracers")
    /\ pc' = IF TracerAvailable(trace_type, TracersContent(available_tracers))
             THEN "write_tracer" ELSE "start_time"
    /\ UNCHANGED <<tracerFiles, configVars, catalogVars, rampVars,
                   eventLocals, timeVars, loggerVars, runs, pulled,
                   optimVars, pidVars,
                   metricVars>>

\* _set_available_tracer: write the tracer to current_tracer
WriteTracer ==
    /\ pc = "write_tracer"
    /\ current_tracer' = write_file(trace_type)
    /\ Issue("write_tracer")
    /\ pc' = "start_time"
    /\ UNCHANGED <<set_event, trace, tracing_on, configVars, catalogVars,
                   rampVars, eventLocals, timeVars, loggerVars, runs, pulled,
                   optimVars, pidVars,
                   metricVars>>

\* _trace_for_time: start_time = self._get_device_time()
ReadStartTime ==
    /\ pc = "start_time"
    /\ \E d \in ClockSteps :
           /\ clock + d <= MaxClock
           /\ clock' = clock + d
    /\ start_time' = DeviceTime(clock')
    /\ now' = start_time'
    /\ pc' = "enable"
    /\ UNCHANGED <<tracerFiles, configVars, catalogVars, rampVars,
                   eventLocals, loggerVars, runs, log, pulled, optimVars, pidVars,
                   metricVars>>

\* _enable_tracing(True)
EnableTracing ==
    /\ pc = "enable"
    /\ tracing_on' = write_file("1")
    /\ Issue("enable")
    /\ pc' = "poll"
    /\ UNCHANGED <<set_event, current_tracer, trace, configVars, catalogVars,
                   rampVars, eventLocals, timeVars, loggerVars, runs, pulled,
                   optimVars, pidVars,
                   metricVars>>

\* _trace_for_time: one evaluation of the loop condition, with the sleep
\* that follows when it holds
Poll ==
    /\ pc = "poll"
    /\ \E d \in ClockSteps :
           /\ clock + d <= MaxClock
           /\ clock' = clock + d
    /\ now' = DeviceTime(clock')
    /\ pc' = IF StillTracing(now', start_time, duration, preamble)
             THEN "poll" ELSE "traced_time"
    /\ UNCHANGED <<start_time, tracerFiles, configVars, catalogVars,
                   rampVars, eventLocals, loggerVars, runs, log, pulled,
                   optimVars, pidVars,
                   metricVars>>

\* _trace_for_time: the read of the device time for the "Traced for" line
ReadTracedTime ==
    /\ pc = "traced_time"
    /\ \E d \in ClockSteps :
           /\ clock + d <= MaxClock
           /\ clock' = clock + d
    /\ now' = DeviceTime(clock')
    /\ pc' = "disable"
    /\ UNCHANGED <<start_time, tracerFiles, configVars, catalogVars,
                   rampVars, eventLocals, loggerVars, runs, log, pulled,
                   optimVars, pidVars,
                   metricVars>>

\* _enable_tracing(False); run then goes on to sys_logger.stop()
DisableTracing ==
    /\ pc = "disable"
    /\ tracing_on' = write_file("0")
    /\ Issue("disable")
    /\ pc' = AfterTracer
    /\ UNCHANGED <<set_event, current_tracer, trace, configVars, catalogVars,
                   rampVars, eventLocals, timeVars, loggerVars, runs, pulled,
                   optimVars, pidVars,
                   metricVars>>

\* get_trace_results: the three pulls
RemoteOf(label) ==
    CASE label = "pull_dat" -> "/data/local/tmp/trace.dat"
      [] label = "pull_report" -> "/data/local/tmp/trace.report"
      [] label = "pull_tlog" -> "/d/binder/transaction_log"

SuffixOf(label) ==
    CASE label = "pull_dat" -> ".dat"
      [] label = "pull_report" -> ".report"
      [] label = "pull_tlog" -> ".tlog"

\* The pulls with the local file named after the capture file, not the
\* application
ArtifactOfUnnamed(label) ==
    [remote |-> RemoteOf(label), local |-> "results/trace" \o SuffixOf(label)]

\* pull_file(remote, "results/" + self.name + suffix)
ArtifactOf(label) ==
    [remote |-> RemoteOf(label),
     local |-> "results/" \o name \o SuffixOf(label)]

AfterPull(label) ==
    CASE label = "pull_dat" -> "pull_report"
      [] label = "pull_report" -> "pull_tlog"
      [] label = "pull_tlog" -> "done"

PullArtifact ==
    /\ pc \in {"pull_dat", "pull_report", "pull_tlog"}
    /\ pulled' = Append(pulled, ArtifactOf(pc))
    /\ Issue(pc)
    /\ pc' = AfterPull(pc)
    /\ UNCHANGED <<configVars, catalogVars, tracerFiles, rampVars,
                   eventLocals, timeVars, loggerVars, runs, optimVars, pidVars,
                   metricVars>>

(***************************************************************************)
(* EnergyDebugger.run (EnergyDebugger.py)                                  *)
(***************************************************************************)
\* run without its self.sys_logger.start() line
RunEntryWithoutLogger == TracerEntry

\* run begins with self.sys_logger.start(), whose first call is the ramp
RunEntry == "buf_read"

\* run is called by EnergyDebugger.__init__ and again by buttonrun
RunCalls == 2

\* The raise caught and the results fetched all the same
ChannelErrorSwallowed ==
    /\ pc \in ChannelCalls \ {"pull_dat", "pull_report", "pull_tlog"}
    /\ Issue("raise")
    /\ pc' = "pull_dat"
    /\ UNCHANGED <<configVars, catalogVars, tracerFiles, rampVars,
                   eventLocals, timeVars, loggerVars, runs, pulled,
                   optimVars, pidVars,
                   metricVars>>

\* A channel call raises: nothing in run catches it, so run is left
ChannelError ==
    /\ pc \in ChannelCalls
    /\ Issue("raise")
    /\ pc' = "failed"
    /\ UNCHANGED <<configVars, catalogVars, tracerFiles, rampVars,
                   eventLocals, timeVars, loggerVars, runs, pulled,
                   optimVars, pidVars,
                   metricVars>>

\* buttonrun: self.current_debugger.run() on the object whose constructor
\* has already run once
RunAgain ==
    /\ pc = "done"
    /\ runs < RunCalls
    /\ runs' = runs + 1
    /\ log' = <<>>
    /\ pulled' = <<>>
    /\ pc' = RunEntry
    /\ UNCHANGED <<configVars, catalogVars, tracerFiles, rampVars,
                   eventLocals, timeVars, loggerVars, optimVars, pidVars,
                   metricVars>>

(***************************************************************************)
(* OptimizationInfo (Optimizations.py)                                     *)
(***************************************************************************)
NumNodes == 2
Nodes == 1..NumNodes
NONE == 0
DVFS == 1
REALLOC == 2
OptimizationInfoType == {NONE, DVFS, REALLOC}
Masks == 0..3
Messages == {"", "note"}

Bit(mask, b) == (mask \div b) % 2
\* `self.optim_type |= optim_type.value` on the two flag bits
BitOr(a, b) ==
    (IF Bit(a, 1) = 1 \/ Bit(b, 1) = 1 THEN 1 ELSE 0)
    + (IF Bit(a, 2) = 1 \/ Bit(b, 2) = 1 THEN 2 ELSE 0)
BitAnd(a, b) ==
    (IF Bit(a, 1) = 1 /\ Bit(b, 1) = 1 THEN 1 ELSE 0)
    + (IF Bit(a, 2) = 1 /\ Bit(b, 2) = 1 THEN 2 ELSE 0)

dvfs_possible(mask) == BitAnd(mask, DVFS) # 0
realloc_possible(mask) == BitAnd(mask, REALLOC) # 0

\* `=` for `|=`: the added type replaces the mask
NewMaskAssigned(old, t) == t

\* `self.optim_type |= optim_type.value`
NewMask(old, t) == BitOr(old, t)

\* `if self.ID == 0:` of add_optim_type
NeedsID(id) == id = 0

\* The counter left as it is after an assignment
NextIDSame(counter) == counter

\* `optimization_ID += 1`
NextID(counter) == counter + 1

add_optim_type(n, t) ==
    /\ optimization_ID < MaxCalls
    /\ IF NeedsID(ID[n])
       THEN /\ ID' = [ID EXCEPT ![n] = optimization_ID]
            /\ optimization_ID' = NextID(optimization_ID)
       ELSE UNCHANGED <<ID, optimization_ID>>
    /\ optim_type' = [optim_type EXCEPT ![n] = NewMask(optim_type[n], t)]
    /\ called' = [called EXCEPT ![n] = TRUE]
    /\ flagged' = [flagged EXCEPT ![n] = flagged[n] \/ t # NONE]
    /\ UNCHANGED <<message, sessionVars, pidVars, metricVars>>

set_message(n, m) ==
    /\ message' = [message EXCEPT ![n] = m]
    /\ UNCHANGED <<optimization_ID, ID, optim_type, called, flagged,
                   sessionVars, pidVars, metricVars>>

AddOptimType == \E n \in Nodes, t \in OptimizationInfoType : add_optim_type(n, t)
SetMessage == \E n \in Nodes, m \in Messages : set_message(n, m)

\* OptimizationInfo.__init__ for every node, the counter at its initial 0
InitOptim ==
    /\ optimization_ID = 0
    /\ ID = [n \in Nodes |-> 0]
    /\ optim_type \in [Nodes -> Masks]
    /\ message = [n \in Nodes |-> ""]
    /\ called = [n \in Nodes |-> FALSE]
    /\ flagged = [n \in Nodes |-> FALSE]

\* No OptimizationInfo is touched while a capture session runs.
OptimAtRest ==
    /\ optimization_ID = 0
    /\ ID = [n \in Nodes |-> 0]
    /\ optim_type = [n \in Nodes |-> NONE]
    /\ message = [n \in Nodes |-> ""]
    /\ called = [n \in Nodes |-> FALSE]
    /\ flagged = [n \in Nodes |-> FALSE]

(***************************************************************************)
(* Initial states                                                          *)
(***************************************************************************)
\* No PIDtracer and no SystemMetrics of these modules is being built.
SnapshotAtRest ==
    /\ ps_output = <<>>
    /\ thread_listing = <<>>
    /\ mainPID = <<>>
    /\ allPID = <<>>
    /\ pid_pc = "unbuilt"
    /\ nproc = <<>>
    /\ core_count = 0
    /\ core_freqs = <<>>
    /\ core_loads = <<>>
    /\ gpu_freq = 0
    /\ gpu_util = 0
    /\ met_pc = "unbuilt"

\* Application names given on the command line
Names == {"app", "game"}

GuiEvents == {binder_transaction, cpu_idle, sched_switch, sys_logger, sched_wakeup}
DeviceEvents == <<sched_switch, cpu_idle, binder_transaction, sched_wakeup_new>>

\* The device as a session finds it, and the locals before their first use
DeviceAtRest ==
    /\ set_event = <<cpu_idle>>
    /\ current_tracer = function_graph
    /\ trace = <<"records">>
    /\ tracing_on = "0"
    /\ daemon = "idle"
    /\ status = "INIT"
    /\ cur_val = 0
    /\ attempts = 0
    /\ avail_events = <<>>
    /\ f = 0
    /\ start_time = 0
    /\ now = 0
    /\ runs = 1
    /\ log = <<>>
    /\ obs = <<>>
    /\ writes = <<>>
    /\ appended = <<>>
    /\ pulled = <<>>

InitialBuffers ==
    {BufferFloor - k * BufferIncrement : k \in 0..MaxRampSteps}
        \cup {BufferFloor + BufferIncrement}

\* EnergyDebugger.__init__ has built the SysLogger and the Tracer and calls run
Init ==
    /\ events \in {<<sched_switch, sched_wakeup>>, <<cpu_idle, sched_wakeup, cpu_idle>>}
    /\ trace_type \in {nop, function}
    /\ duration \in {1, 2}
    /\ name \in Names
    /\ preamble \in {0, 1}
    /\ skip_clear \in BOOLEAN
    /\ available_events = SubSeq(DeviceEvents, 1, 3)
    /\ available_tracers \in {<<function_graph, nop>>, <<nop>>}
    /\ buffer_size_kb \in InitialBuffers
    /\ clock \in {0, 102}
    /\ DeviceAtRest
    /\ pc = RunEntry
    /\ OptimAtRest
    /\ SnapshotAtRest

Next ==
    \/ RampRead \/ RampWrite \/ RampReadBack
    \/ LoggerSetup \/ LoggerStart
    \/ ClearTracer \/ ClearTrace \/ ClearSetEvent
    \/ ReadAvailableEvents \/ AppendEvent
    \/ ReadAvailableTracers \/ WriteTracer
    \/ ReadStartTime \/ EnableTracing \/ Poll \/ ReadTracedTime
    \/ DisableTracing
    \/ LoggerStop \/ LoggerFinish
    \/ PullArtifact
    \/ ChannelError
    \/ RunAgain

Spec == Init /\ [][Next]_vars

(***************************************************************************)
(* _set_available_events on its own: every short event list against every  *)
(* catalog, entered as run_tracer enters it when the clear is skipped      *)
(***************************************************************************)
CatalogChoices ==
    {SelectSeqBy(DeviceEvents, S) : S \in SUBSET Range(DeviceEvents)}

InitEvents ==
    /\ events \in SeqsUpTo(GuiEvents, MaxEvents)
    /\ available_events \in CatalogChoices
    /\ trace_type = nop
    /\ duration = 1
    /\ name = "app"
    /\ preamble = 0
    /\ skip_clear = TRUE
    /\ available_tracers = <<function_graph, nop>>
    /\ set_event = <<cpu_idle>>
    /\ current_tracer = function_graph
    /\ trace = <<"records">>
    /\ tracing_on = "0"
    /\ buffer_size_kb = BufferFloor
    /\ clock = 0
    /\ daemon = "started"
    /\ status = "START"
    /\ cur_val = BufferFloor
    /\ attempts = 0
    /\ avail_events = <<>>
    /\ f = 0
    /\ start_time = 0
    /\ now = 0
    /\ runs = 1
    /\ log = <<"setup", "start">>
    /\ obs = <<BufferFloor>>
    /\ writes = <<>>
    /\ appended = <<>>
    /\ pulled = <<>>
    /\ pc = TracerEntry
    /\ OptimAtRest
    /\ SnapshotAtRest

NextEvents == ReadAvailableEvents \/ AppendEvent \/ ChannelError

SpecEvents == InitEvents /\ [][NextEvents]_vars

(***************************************************************************)
(* OptimizationInfo objects on their own, after the capture session        *)
(***************************************************************************)
InitOptimOnly ==
    /\ events = <<>>
    /\ available_events = <<>>
    /\ available_tracers = <<function_graph, nop>>
    /\ trace_type = nop
    /\ duration = 1
    /\ name = "app"
    /\ preamble = 0
    /\ skip_clear = TRUE
    /\ buffer_size_kb = BufferFloor
    /\ clock = 0
    /\ DeviceAtRest
    /\ pc = "done"
    /\ InitOptim
    /\ SnapshotAtRest

NextOptim == AddOptimType \/ SetMessage

SpecOptim == InitOptimOnly /\ [][NextOptim]_vars

(***************************************************************************)
(* Claims                                                                  *)
(***************************************************************************)
EventsDone == pc = "read_tracers"
CatalogSet == Range(available_events)

\* C1: the names _set_available_events appends are the requested list
\* restricted to the catalog entries, in the list's order, each name once.
C1_AppendedIsIntersection ==
    EventsDone => appended = Dedup(SelectSeqBy(events, CatalogSet))

\* C2: catalog {sched_switch, cpu_idle, binder_transaction}, requested
\* {sched_switch, sched_wakeup}: the set of appended events is {sched_switch}.
C2_Scenario ==
    /\ CatalogSet = {sched_switch, cpu_idle, binder_transaction}
    /\ Range(events) = {sched_switch, sched_wakeup}

C2_ScenarioSelectsSchedSwitch ==
    (EventsDone /\ C2_Scenario) => Range(appended) = {sched_switch}

C2_Witness ==
    EventsDone /\ C2_Scenario /\ events = <<sched_wakeup, sched_switch>>
        /\ appended = <<sched_switch>>

(***************************************************************************)
(* Claims about the capture session                                        *)
(***************************************************************************)
Window == (duration + preamble) * MicrosPerSecond

\* a is issued before every b of the current run's commands
Precedes(a, b) ==
    \A j \in 1..Len(log) : log[j] = b => \E i \in 1..(j - 1) : log[i] = a

\* C3: tracing_on is written "0" only when the device time read since the
\* origin is at least (duration + preamble) * 1000000, and a poll leaves the
\* loop exactly when the time it reads is that far from the origin, whatever
\* the device clock did between the polls.
C3_PollStep ==
    (pc = "poll" /\ pc' \in {"poll", "traced_time"})
        => (pc' = "traced_time" <=> DeviceTime(clock') - start_time >= Window)

C3_OffStep ==
    (pc = "disable" /\ tracing_on' = "0")
        => (DeviceTime(clock) - start_time >= Window
            /\ now - start_time >= Window)

C3_WindowMeasuredOnDevice == [][C3_PollStep /\ C3_OffStep]_vars

C3_Witness ==
    /\ pc = "stop"
    /\ tracing_on = "0"
    /\ duration = 2
    /\ preamble = 1
    /\ now - start_time = 3 * MicrosPerSecond

\* C4: in every run the logger start command has returned before tracing_on
\* is written "1", the logger stop command comes after tracing_on is written
\* "0", and tracing_on is "1" only while the logger is started.
C4_LoggerBracketsCapture ==
    /\ Precedes("start", "enable")
    /\ Precedes("disable", "stop")
    /\ tracing_on = "1" => (status = "START" /\ daemon = "started")

C4_Witness ==
    /\ pc = "finish"
    /\ runs = RunCalls
    /\ "enable" \in Range(log)
    /\ tracing_on = "0"

\* C5 as stated: no logger setup or start command before the configuration
\* (clear, events, tracer) is complete.
C5_LoggerAfterConfiguration ==
    /\ Precedes("read_tracers", "setup")
    /\ Precedes("read_tracers", "start")

\* C5 as amended: the logger is set up and started first, then the tracer is
\* cleared (unless skipped) and configured, then capture is enabled and
\* disabled, then the logger is stopped and finished, then the artifacts are
\* pulled; none of these steps comes before the one it follows.
Rank(cmd) ==
    CASE cmd = "setup" -> 1
      [] cmd = "start" -> 2
      [] cmd = "clear_tracer" -> 3
      [] cmd = "clear_trace" -> 4
      [] cmd = "clear_set_event" -> 5
      [] cmd = "read_events" -> 6
      [] cmd = "append_event" -> 7
      [] cmd = "read_tracers" -> 8
      [] cmd = "write_tracer" -> 9
      [] cmd = "enable" -> 10
      [] cmd = "disable" -> 11
      [] cmd = "stop" -> 12
      [] cmd = "finish" -> 13
      [] cmd = "pull_dat" -> 14
      [] cmd = "pull_report" -> 15
      [] cmd = "pull_tlog" -> 16
      [] cmd = "raise" -> 17

C5_SessionOrder ==
    /\ \A i \in 1..(Len(log) - 1) :
           \/ Rank(log[i]) < Rank(log[i + 1])
           \/ log[i] = "append_event" /\ log[i + 1] = "append_event"
    /\ Precedes("setup", "start")
    /\ \A c \in {"clear_tracer", "clear_trace", "clear_set_event",
                 "read_events", "append_event", "read_tracers",
                 "write_tracer"} : Precedes("start", c)
    /\ ~skip_clear => Precedes("clear_set_event", "read_events")
    /\ Precedes("read_tracers", "enable")
    /\ Precedes("enable", "disable")
    /\ Precedes("disable", "stop")
    /\ Precedes("stop", "finish")
    /\ Precedes("finish", "pull_dat")

C5_Witness ==
    /\ pc = "done"
    /\ ~skip_clear
    /\ Len(pulled) = 3
    /\ "clear_tracer" \in Range(log)
    /\ "append_event" \in Range(log)

\* C6: once a channel call before the retrieval has raised, the run issues
\* no pull and no further command.
C6_NothingAfterRaise ==
    /\ \A j \in 1..Len(log) : log[j] = "raise" => (j = Len(log) /\ pc = "failed")
    /\ ("raise" \in Range(log) /\ "finish" \notin Range(log)) => pulled = <<>>
    /\ pc = "failed" => "raise" \in Range(log)

C6_Witness ==
    /\ pc = "failed"
    /\ tracing_on = "1"
    /\ "enable" \in Range(log)
    /\ pulled = <<>>

\* C7: the ramp never sees a fourth read-back in a row without change: the
\* third one ends the loop, also below the floor, and while the loop runs
\* the counter is the number of unchanged read-backs since the last change.
RECURSIVE TrailingNoChange(_)
TrailingNoChange(o) ==
    IF Len(o) < 2 THEN 0
    ELSE IF o[Len(o)] = o[Len(o) - 1]
         THEN 1 + TrailingNoChange(SubSeq(o, 1, Len(o) - 1))
         ELSE 0

InRamp == pc \in {"buf_write", "buf_readback"}

C7_RampGivesUpAfterThree ==
    /\ TrailingNoChange(obs) <= MaxAttempts
    /\ InRamp => (attempts = TrailingNoChange(obs) /\ attempts < MaxAttempts)
    /\ \A i \in 1..(Len(obs) - 4) :
           ~(obs[i] = obs[i + 1] /\ obs[i + 1] = obs[i + 2]
             /\ obs[i + 2] = obs[i + 3] /\ obs[i + 3] = obs[i + 4])

C7_Witness ==
    /\ pc = "setup"
    /\ cur_val < BufferFloor
    /\ TrailingNoChange(obs) = MaxAttempts
    /\ \E i \in 1..(Len(obs) - 2) : obs[i] = obs[i + 1] /\ obs[i + 1] # obs[i + 2]

(***************************************************************************)
(* Claims about OptimizationInfo                                           *)
(***************************************************************************)
\* C8: once add_optim_type has been called on a node, the node's ID never
\* changes again.
C8_IDStable == [][\A n \in Nodes : called[n] => ID'[n] = ID[n]]_vars

\* C9: a node's ID is 0 exactly as long as no DVFS or REALLOC flag has been
\* set on it through add_optim_type.
C9_ZeroIffUnassigned == \A n \in Nodes : (ID[n] = 0) <=> ~flagged[n]

\* C10: no step clears a flag bit: every bit of the old mask is in the new
\* mask, a changed mask is the old mask OR one of the types, and
\* dvfs_possible and realloc_possible never turn from true to false.
C10_MaskStep ==
    \A n \in Nodes :
        /\ BitAnd(optim_type[n], optim_type'[n]) = optim_type[n]
        /\ \E t \in OptimizationInfoType :
               optim_type'[n] = BitOr(optim_type[n], t)
        /\ dvfs_possible(optim_type[n]) => dvfs_possible(optim_type'[n])
        /\ realloc_possible(optim_type[n]) => realloc_possible(optim_type'[n])

C10_MaskMonotone == [][C10_MaskStep]_vars

C10_Witness ==
    \E n \in Nodes :
        /\ flagged[n]
        /\ optim_type[n] = 3
        /\ message[n] = "note"
        /\ ID[n] # 0

(***************************************************************************)
(* Claims about the configuration step                                     *)
(***************************************************************************)
ClearCommands == {"clear_tracer", "clear_trace", "clear_set_event"}
Issued(cmd) == cmd \in Range(log)
TracerFound == TracerAvailable(trace_type, TracersContent(available_tracers))

\* What the device holds before the first run (DeviceAtRest)
TracerBefore == function_graph
SetEventBefore == <<cpu_idle>>
TraceBefore == <<"records">>

SkipIssuesNoClear ==
    /\ Range(log) \cap ClearCommands = {}
    /\ trace = TraceBefore
    /\ SubSeq(set_event, 1, Len(SetEventBefore)) = SetEventBefore

\* C11 as stated: with the skip flag set nothing is cleared, and the tracer
\* active before the run is the active tracer when capture is enabled.
C11_SkipKeepsTracer ==
    (skip_clear /\ runs = 1)
        => /\ SkipIssuesNoClear
           /\ Issued("enable") => current_tracer = TracerBefore

\* C11 as amended: with the skip flag set no clear command is issued, the
\* trace buffer and the entries of set_event stay, and current_tracer is
\* changed by the configuration step alone: when capture is enabled it is
\* the requested type if the code found it in available_tracers and the
\* tracer active before otherwise.
C11_SkipLeavesTracerToConfiguration ==
    skip_clear
        => /\ SkipIssuesNoClear
           /\ current_tracer \in {TracerBefore, trace_type}
           /\ Issued("enable") =>
                  current_tracer = IF TracerFound THEN trace_type
                                   ELSE TracerBefore

C11_Witness ==
    /\ skip_clear
    /\ Issued("enable")
    /\ ~TracerFound
    /\ current_tracer = TracerBefore
    /\ set_event = <<cpu_idle, sched_switch>>

\* The configuration step of the current run is complete.
ConfigDone ==
    Issued("read_tracers") /\ (TracerFound => Issued("write_tracer"))

\* What one run of the clear/configure portion leaves on a device at rest
SetEventOnce == (IF skip_clear THEN SetEventBefore ELSE <<>>) \o appended
TracerOnce ==
    IF TracerFound THEN trace_type
    ELSE IF skip_clear THEN TracerBefore ELSE nop

\* C12: the clear/configure portion is idempotent: after it has run, for the
\* first or for the second time with the same inputs, set_event and
\* current_tracer hold what one run of it leaves.
C12_ConfigureIdempotent ==
    ConfigDone => (set_event = SetEventOnce /\ current_tracer = TracerOnce)

(***************************************************************************)
(* PIDtracer (pid_trace.py)                                                *)
(***************************************************************************)
MaxLines == 3
MaxProcesses == 2

app == <<"a", "p", "p">>
grep == <<"g", "r", "e", "p">>
space == <<" ">>
Whitespace == {" ", "\n", "\t"}

\* The pieces of s between the characters of seps, empty pieces kept.
RECURSIVE SplitAt(_, _)
SplitAt(s, seps) ==
    IF \A i \in 1..Len(s) : s[i] \notin seps THEN <<s>>
    ELSE LET i == CHOOSE k \in 1..Len(s) :
                      /\ s[k] \in seps
                      /\ \A j \in 1..(k - 1) : s[j] \notin seps
         IN <<SubSeq(s, 1, i - 1)>> \o SplitAt(SubSeq(s, i + 1, Len(s)), seps)

RECURSIVE NonEmpty(_)
NonEmpty(pieces) ==
    IF pieces = <<>> THEN <<>>
    ELSE IF Len(Head(pieces)) = 0 THEN NonEmpty(Tail(pieces))
    ELSE <<Head(pieces)>> \o NonEmpty(Tail(pieces))

\* str.split(): the words between runs of whitespace
split(s) == NonEmpty(SplitAt(s, Whitespace))

\* str.splitlines(): the lines, without a last empty one
splitlines(s) ==
    LET pieces == SplitAt(s, {"\n"})
    IN IF Len(pieces[Len(pieces)]) = 0
       THEN SubSeq(pieces, 1, Len(pieces) - 1)
       ELSE pieces

\* re.split('{|}', line)
re_split(line) == SplitAt(line, {"{", "}"})

RECURSIVE Join(_, _)
Join(words, sep) ==
    IF words = <<>> THEN <<>>
    ELSE IF Len(words) = 1 THEN Head(words)
    ELSE Head(words) \o sep \o Join(Tail(words), sep)

PID(pid, user, time, pname, tname) ==
    [pid |-> pid, user |-> user, time |-> time, pname |-> pname,
     tname |-> tname]

\* The threads `busybox ps -T` can list for the application, and the line of
\* the listing command itself.
Threads ==
    {PID(<<"7">>, <<"u">>, <<"0">>, app, <<"t", "1">>),
     PID(<<"8">>, <<"u">>, <<"0">>, app, <<"b", " ", "1">>)}
GrepLine == [grep |-> app]
ListingLines == Threads \cup {GrepLine}

\* <pid> <user> <time> {<thread label>} <process name>
RenderLine(l) ==
    IF l = GrepLine
    THEN Join(<<<<"9">>, <<"u">>, <<"0">>, grep, l.grep>>, space)
    ELSE Join(<<l.pid, l.user, l.time, <<"{">> \o l.tname \o <<"}">>,
                l.pname>>, space)

RECURSIVE RenderLines(_)
RenderLines(ls) ==
    IF ls = <<>> THEN <<>>
    ELSE RenderLine(Head(ls)) \o newline \o RenderLines(Tail(ls))

\* The rows `ps` prints for the application: user, pid and seven more columns,
\* the last one the process name.
ProcessRow(pid) ==
    <<<<"u">>, pid, <<"1">>, <<"5">>, <<"2">>, <<"f">>, <<"0">>, <<"S">>, app>>
ProcessRows == {ProcessRow(<<"7">>), ProcessRow(<<"6">>)}

RECURSIVE RenderRows(_)
RenderRows(rows) ==
    IF rows = <<>> THEN <<>>
    ELSE Join(Head(rows), space) \o newline \o RenderRows(Tail(rows))

\* Python indexes from 0.
At(s, i) == s[i + 1]

\* findMainPID: the value it returns, as a sequence (None is <<>>), and
\* whether it raised (res[8] of a shorter list). ret is built and dropped.
findMainPID(output) ==
    LET res == split(output)
    IN IF Len(res) < 9 THEN [raised |-> TRUE, value |-> <<>>]
       ELSE LET ret == PID(At(res, 1), At(res, 0), 0, At(res, 7), <<"main">>)
            IN [raised |-> FALSE, value |-> <<>>]

\* The test of line 42
SkipsLineNever(line) == FALSE
SkipsLine(line) == IsSubstring(grep, line)

\* findAllPID: allPID after the loop over the lines, and whether it raised
\* (an index past the end of split_line, before_name or after_name).
RECURSIVE findAllPID(_, _)
findAllPID(lines, acc) ==
    IF lines = <<>> THEN [raised |-> FALSE, allPID |-> acc]
    ELSE LET line == Head(lines)
             split_line == re_split(line)
         IN IF SkipsLine(line) THEN findAllPID(Tail(lines), acc)
            ELSE IF Len(split_line) < 3 THEN [raised |-> TRUE, allPID |-> acc]
            ELSE LET before_name == split(At(split_line, 0))
                     after_name == split(At(split_line, 2))
                 IN IF Len(before_name) < 3 \/ Len(after_name) < 1
                    THEN [raised |-> TRUE, allPID |-> acc]
                    ELSE findAllPID(Tail(lines),
                             Append(acc, PID(At(before_name, 0),
                                             At(before_name, 1),
                                             At(before_name, 2),
                                             At(after_name, 0),
                                             At(split_line, 1))))

pidRest == <<sessionVars, optimVars, metricVars>>

\* self.mainPID = self.findMainPID()
FindMainPID ==
    /\ pid_pc = "find_main"
    /\ LET r == findMainPID(RenderRows(ps_output))
       IN /\ mainPID' = r.value
          /\ pid_pc' = IF r.raised THEN "raised" ELSE "find_all"
    /\ UNCHANGED <<ps_output, thread_listing, allPID, pidRest>>

\* self.allPID = []; self.findAllPID()
FindAllPID ==
    /\ pid_pc = "find_all"
    /\ LET r == findAllPID(splitlines(RenderLines(thread_listing)), <<>>)
       IN /\ allPID' = r.allPID
          /\ pid_pc' = IF r.raised THEN "raised" ELSE "done"
    /\ UNCHANGED <<ps_output, thread_listing, mainPID, pidRest>>

\* runCommand fails in either call
PidChannelError ==
    /\ pid_pc \in {"find_main", "find_all"}
    /\ pid_pc' = "failed"
    /\ UNCHANGED <<ps_output, thread_listing, mainPID, allPID, pidRest>>

InitPid ==
    /\ events = <<>>
    /\ available_events = <<>>
    /\ available_tracers = <<function_graph, nop>>
    /\ trace_type = nop
    /\ duration = 1
    /\ name = "app"
    /\ preamble = 0
    /\ skip_clear = FALSE
    /\ DeviceAtRest
    /\ buffer_size_kb = BufferFloor
    /\ clock = 0
    /\ pc = "done"
    /\ OptimAtRest
    /\ ps_output \in SeqsUpTo(ProcessRows, MaxProcesses)
    /\ thread_listing \in SeqsUpTo(ListingLines, MaxLines)
    /\ mainPID = <<>>
    /\ allPID = <<>>
    /\ pid_pc = "find_main"
    /\ nproc = <<>>
    /\ core_count = 0
    /\ core_freqs = <<>>
    /\ core_loads = <<>>
    /\ gpu_freq = 0
    /\ gpu_util = 0
    /\ met_pc = "unbuilt"

NextPid == FindMainPID \/ FindAllPID \/ PidChannelError

SpecPid == InitPid /\ [][NextPid]_vars

\* The lines of the listing that are not the listing command's own
Matching == SelectSeqBy(thread_listing, Threads)

\* C13: findAllPID leaves in allPID one identity per listing line that does
\* not contain the listing command, in listing order, and the empty sequence
\* for a listing without a matching line (empty, or only grep lines); it
\* never raises: the only exception of the constructor is the one of the
\* main lookup on an empty `ps` output.
C13_ResolveAll ==
    /\ pid_pc = "done" => allPID = Matching
    /\ pid_pc # "done" => allPID = <<>>
    /\ pid_pc = "raised" => ps_output = <<>>
C13_Witness ==
    /\ pid_pc = "done"
    /\ Len(thread_listing) = MaxLines
    /\ thread_listing[2] = GrepLine
    /\ Len(allPID) = 2
    /\ allPID[1].tname = <<"b", " ", "1">>
C13_WitnessEmpty ==
    pid_pc = "done" /\ thread_listing = <<GrepLine>> /\ allPID = <<>>

\* C14: after construction mainPID holds the identity of the first process
\* of the `ps | grep name` output, with thread label "main", whenever a
\* process matches.
C14_MainPIDHeld ==
    (pid_pc = "done" /\ ps_output # <<>>) =>
        mainPID = <<PID(ps_output[1][2], ps_output[1][1], 0,
                        ps_output[1][8], <<"main">>)>>

\* The three artifacts of an application, in the order of get_trace_results
ExpectedArtifacts ==
    <<[remote |-> "/data/local/tmp/trace.dat",
       local |-> "results/" \o name \o ".dat"],
      [remote |-> "/data/local/tmp/trace.report",
       local |-> "results/" \o name \o ".report"],
      [remote |-> "/d/binder/transaction_log",
       local |-> "results/" \o name \o ".tlog"]>>

PullCommands == {"pull_dat", "pull_report", "pull_tlog"}

\* C15: an artifact is pulled only with capture disabled and the logger
\* stopped and then finished (finish never before stop); the pulls are the
\* .dat, the .report and the .tlog of the application, in this order and
\* no other, all three once the run is done.
C15_RetrievalLast ==
    /\ Precedes("stop", "finish")
    /\ \A c \in PullCommands :
           /\ Precedes("disable", c)
           /\ Precedes("stop", c)
           /\ Precedes("finish", c)
    /\ pulled # <<>> =>
           (tracing_on = "0" /\ daemon = "finished" /\ Issued("finish"))
    /\ Len(pulled) <= 3
    /\ pulled = SubSeq(ExpectedArtifacts, 1, Len(pulled))
    /\ pc = "done" => pulled = ExpectedArtifacts

C15_Witness ==
    /\ pc = "done"
    /\ name = "game"
    /\ Len(pulled) = 3
    /\ pulled[3].local = "results/game.tlog"
    /\ log[Len(log) - 3] = "finish"

RampLabels == {"buf_read", "buf_write", "buf_readback"}

\* The ramp of this run has given up below the floor
RampAborted ==
    pc \notin RampLabels /\ attempts = MaxAttempts /\ cur_val < BufferFloor

\* C16: the ramp runs before any command of the logger, setup is issued
\* before start, and a ramp that gave up below the floor after three
\* read-backs without change does not end the run: setup is the next command
\* and only a raise of the channel stops the run short of the capture.
C16_RampAbortNonFatal ==
    /\ pc \in RampLabels => log = <<>>
    /\ Precedes("setup", "start")
    /\ \A c \in Range(log) \ {"setup", "raise"} : Precedes("setup", c)
    /\ RampAborted =>
           /\ pc = "setup" \/ (log # <<>> /\ log[1] \in {"setup", "raise"})
           /\ pc = "failed" => Issued("raise")
           /\ (Len(log) >= 2 /\ log[2] # "raise") => log[2] = "start"

C16_Witness ==
    /\ RampAborted
    /\ Len(log) >= 2
    /\ SubSeq(log, 1, 2) = <<"setup", "start">>
    /\ Issued("enable")
    /\ tracing_on = "1"
    /\ buffer_size_kb < BufferFloor

(***************************************************************************)
(* SystemMetrics (metrics.py)                                              *)
(***************************************************************************)
MaxCores == 3

Digits == <<"0", "1", "2", "3", "4", "5", "6", "7", "8", "9">>

\* The decimal text of a natural number
RECURSIVE str(_)
str(n) ==
    IF n < Len(Digits) THEN <<Digits[n + 1]>>
    ELSE str(n \div Len(Digits)) \o <<Digits[(n % Len(Digits)) + 1]>>

DigitValue(c) == CHOOSE d \in 0..(Len(Digits) - 1) : Digits[d + 1] = c

RECURSIVE DigitsValue(_)
DigitsValue(ds) ==
    IF ds = <<>> THEN 0
    ELSE DigitsValue(SubSeq(ds, 1, Len(ds) - 1)) * Len(Digits)
             + DigitValue(ds[Len(ds)])

\* int(text): the number between the surrounding whitespace, or ValueError
IsNumber(text) ==
    LET words == split(text)
    IN /\ Len(words) = 1
       /\ \A i \in 1..Len(words[1]) : words[1][i] \in Range(Digits)
int(text) == DigitsValue(split(text)[1])

\* What the device prints for nproc (nothing where the tool is missing), for
\* a core's scaling_cur_freq and for the clock and utilization of the GPU
NprocOutputs == {str(n) \o newline : n \in 0..MaxCores} \cup {<<>>}
CoreFrequencies == {200000, 1400000}
GPUFrequencies == {177, 600}
GPUUtilizations == {0, 57}
Printed(values) == {str(v) \o newline : v \in values}

\* getCoreLoads with a load sampled per core
getCoreLoadsSampled(count) == [core \in 1..count |-> core]

\* getCoreLoads: [0] * self.core_count
getCoreLoads(count) == [core \in 1..count |-> 0]

\* `for core in range(self.core_count)`, core being len(frequencies)
MoreCores(frequencies, count) == Len(frequencies) < count

metricsRest == <<sessionVars, optimVars, pidVars>>

\* self.core_count = self.getCoreCount()
GetCoreCount ==
    /\ met_pc = "core_count"
    /\ IF IsNumber(nproc)
       THEN /\ core_count' = int(nproc)
            /\ met_pc' = IF MoreCores(<<>>, core_count') THEN "core_freqs"
                         ELSE "core_loads"
       ELSE /\ core_count' = core_count
            /\ met_pc' = "raised"
    /\ UNCHANGED <<nproc, core_freqs, core_loads, gpu_freq, gpu_util,
                   metricsRest>>

\* getCoreFrequencies: one pass of the loop
GetCoreFrequency ==
    /\ met_pc = "core_freqs"
    /\ \E text \in Printed(CoreFrequencies) :
           core_freqs' = Append(core_freqs, int(text))
    /\ met_pc' = IF MoreCores(core_freqs', core_count) THEN "core_freqs"
                 ELSE "core_loads"
    /\ UNCHANGED <<nproc, core_count, core_loads, gpu_freq, gpu_util,
                   metricsRest>>

\* self.core_loads = self.getCoreLoads()
GetCoreLoads ==
    /\ met_pc = "core_loads"
    /\ core_loads' = getCoreLoads(core_count)
    /\ met_pc' = "gpu_freq"
    /\ UNCHANGED <<nproc, core_count, core_freqs, gpu_freq, gpu_util,
                   metricsRest>>

\* self.gpu_freq = self.getGPUFreq()
GetGPUFreq ==
    /\ met_pc = "gpu_freq"
    /\ \E text \in Printed(GPUFrequencies) : gpu_freq' = int(text)
    /\ met_pc' = "gpu_util"
    /\ UNCHANGED <<nproc, core_count, core_freqs, core_loads, gpu_util,
                   metricsRest>>

\* self.gpu_util = self.getGPUUtil()
GetGPUUtil ==
    /\ met_pc = "gpu_util"
    /\ \E text \in Printed(GPUUtilizations) : gpu_util' = int(text)
    /\ met_pc' = "done"
    /\ UNCHANGED <<nproc, core_count, core_freqs, core_loads, gpu_freq,
                   metricsRest>>

\* runCommand fails in one of the reads
MetricsChannelError ==
    /\ met_pc \in {"core_count", "core_freqs", "gpu_freq", "gpu_util"}
    /\ met_pc' = "failed"
    /\ UNCHANGED <<nproc, core_count, core_freqs, core_loads, gpu_freq,
                   gpu_util, metricsRest>>

InitMetrics ==
    /\ events = <<>>
    /\ available_events = <<>>
    /\ available_tracers = <<function_graph, nop>>
    /\ trace_type = nop
    /\ duration = 1
    /\ name = "app"
    /\ preamble = 0
    /\ skip_clear = FALSE
    /\ DeviceAtRest
    /\ buffer_size_kb = BufferFloor
    /\ clock = 0
    /\ pc = "done"
    /\ OptimAtRest
    /\ ps_output = <<>>
    /\ thread_listing = <<>>
    /\ mainPID = <<>>
    /\ allPID = <<>>
    /\ pid_pc = "unbuilt"
    /\ nproc \in NprocOutputs
    /\ core_count = 0
    /\ core_freqs = <<>>
    /\ core_loads = <<>>
    /\ gpu_freq = 0
    /\ gpu_util = 0
    /\ met_pc = "core_count"

NextMetrics ==
    \/ GetCoreCount \/ GetCoreFrequency \/ GetCoreLoads
    \/ GetGPUFreq \/ GetGPUUtil \/ MetricsChannelError

SpecMetrics == InitMetrics /\ [][NextMetrics]_vars

\* C17: in a constructed SystemMetrics the frequencies and the loads have
\* one entry per core of the count the device reported, and every load is 0.
C17_PerCoreLengths ==
    met_pc = "done" =>
        /\ nproc = str(core_count) \o newline
        /\ Len(core_freqs) = core_count
        /\ Len(core_loads) = core_count
        /\ \A core \in 1..Len(core_loads) : core_loads[core] = 0

C17_Witness ==
    /\ met_pc = "done"
    /\ core_count = MaxCores
    /\ Len(core_freqs) = MaxCores
    /\ core_freqs[1] # core_freqs[MaxCores]
    /\ Len(core_loads) = MaxCores

\* The requested tracer is one of the names of available_tracers
Advertised == trace_type \in Range(available_tracers)

\* C18: the configuration writes the requested tracer to current_tracer if
\* and only if it is an entry of the advertised list; when it is not, there
\* is no write and the tracer set before stays.
C18_WrittenIffAdvertised ==
    /\ (pc = "write_tracer" \/ Issued("write_tracer")) => Advertised
    /\ (Issued("read_tracers") /\ Advertised /\ pc \notin {"write_tracer", "failed"})
           => Issued("write_tracer")
    /\ (Issued("read_tracers") /\ ~Advertised) =>
           current_tracer = (IF skip_clear THEN TracerBefore ELSE nop)

\* C19: in the ramp the i-th write asks for the i-th observed value plus
\* 500, a read-back stands between two writes, and every write comes after
\* observations below the floor only: none is issued once a value at or
\* above the floor has been read, the first read included.
C19_RampWrites ==
    /\ \A i \in 1..Len(writes) :
           /\ i <= Len(obs)
           /\ writes[i] = obs[i] + BufferIncrement
           /\ \A j \in 1..i : obs[j] < BufferFloor
    /\ pc = "buf_write" =>
           (Len(obs) = Len(writes) + 1 /\ obs[Len(obs)] < BufferFloor)
    /\ pc = "buf_readback" => Len(obs) = Len(writes)
    /\ pc = "setup" => Len(obs) = Len(writes) + 1
    /\ Len(obs) <= Len(writes) + 1

C19_Witness ==
    /\ pc = "setup"
    /\ Len(writes) >= 2
    /\ obs[Len(obs)] >= BufferFloor
    /\ obs[1] < obs[2]

C19_WitnessAtFloor ==
    pc = "setup" /\ obs = <<BufferFloor>> /\ writes = <<>>

(***************************************************************************)
(* The session with a device clock that keeps advancing                    *)
(***************************************************************************)
\* A poll that reads a later uptime than the one before
PollAdvance == Poll /\ clock' > clock

\* One session of the default tracer, the buffer one increment below the
\* floor
InitLive ==
    /\ events = <<sched_switch, sched_wakeup>>
    /\ trace_type = nop
    /\ duration \in {1, 2}
    /\ name = "app"
    /\ preamble \in {0, 1}
    /\ skip_clear = FALSE
    /\ available_events = SubSeq(DeviceEvents, 1, 3)
    /\ available_tracers = <<function_graph, nop>>
    /\ buffer_size_kb = BufferFloor - BufferIncrement
    /\ clock \in {0, 102}
    /\ DeviceAtRest
    /\ pc = RunEntry
    /\ OptimAtRest
    /\ SnapshotAtRest

\* The uptime moves on between two polls (the host sleeps 0.1 s in between),
\* and the host goes on after the loop.
SpecLive ==
    /\ InitLive
    /\ [][Next]_vars
    /\ WF_vars(PollAdvance)
    /\ WF_vars(ReadTracedTime)
    /\ WF_vars(DisableTracing)

SmallestStep ==
    CHOOSE d \in ClockSteps \ {0} : \A e \in ClockSteps \ {0} : d <= e

\* The clock of the model can still reach an uptime a window past the origin
WindowInReach ==
    \E k \in 1..MaxClock :
        /\ clock + k * SmallestStep <= MaxClock
        /\ DeviceTime(clock + k * SmallestStep) - start_time >= Window

Capturing == pc = "poll" /\ tracing_on = "1"

\* C20: once capture is enabled and the device clock keeps advancing, the
\* polling loop ends: the run gets to write "0" to tracing_on or stops on a
\* raise of the channel.
C20_PollingEnds ==
    (Capturing /\ WindowInReach)
        ~> (pc = "failed" \/ (pc = "stop" /\ tracing_on = "0"))

C20_Witness ==
    /\ pc = "stop"
    /\ tracing_on = "0"
    /\ Issued("enable")
    /\ Issued("disable")
    /\ now - start_time >= Window
    /\ runs = RunCalls

\* The run has returned or has been left by a raise
SessionEnded == pc \in {"done", "failed"}

\* C21: a session that ends after tracing_on was written "1", by completing
\* or by a raise of the channel, leaves tracing_on at "0" and has issued the
\* stop command of the logger.
C21_EndsDisabledAndStopped ==
    (SessionEnded /\ Issued("enable")) =>
        (tracing_on = "0" /\ Issued("stop"))

\* How often a command is in the log of the current run
Count(cmd) == Cardinality({i \in 1..Len(log) : log[i] = cmd})

\* C22: one run request performs one capture session: run is entered once,
\* and the session that completes has issued start, the write of "1", the
\* write of "0", stop and finish once each and pulled the three artifacts
\* once.
C22_OneSessionPerRequest ==
    /\ runs = 1
    /\ pc = "done" =>
           /\ \A c \in {"start", "enable", "disable", "stop", "finish"} :
                  Count(c) = 1
           /\ \A c \in PullCommands : Count(c) = 1
           /\ Len(pulled) = 3

\* class SysLoggerStatus(Enum)
SysLoggerStatus(s) ==
    CASE s = "INIT" -> 1
      [] s = "SETUP" -> 2
      [] s = "START" -> 3
      [] s = "STOP" -> 4
      [] s = "FINISH" -> 5

\* C23: over the start() and stop() calls on one SysLogger, those of a
\* repeated run included, the status never goes back to an earlier value of
\* INIT, SETUP, START, STOP, FINISH, and it becomes START only with the
\* start command issued.
C23_StatusStep ==
    /\ SysLoggerStatus(status') >= SysLoggerStatus(status)
    /\ status' = "START" => "start" \in Range(log')
C23_StatusForward == [][C23_StatusStep]_vars

\* C24: after any interleaving of add_optim_type calls on the nodes, two
\* different nodes that have both been called hold different IDs, and the
\* counter optimization_ID never decreases.
C24_Distinct ==
    \A m, n \in Nodes : (m # n /\ called[m] /\ called[n]) => ID[m] # ID[n]
C24_CounterStep == optimization_ID' >= optimization_ID
C24_UniqueIDs == []C24_Distinct /\ [][C24_CounterStep]_vars

C24_Witness ==
    /\ \A n \in Nodes : called[n]
    /\ \A m, n \in Nodes : m # n => ID[m] # ID[n]
    /\ optimization_ID > NumNodes

====
